---- MODULE Spec2Model ----
(***************************************************************************)
(* Email masking pipeline (scripts/email_masking_pipeline.py).             *)
(*                                                                         *)
(* Strings are sequences of one-character strings.  Python's None and      *)
(* SQL's NULL are the value None below, a sequence no string equals.       *)
(***************************************************************************)
EXTENDS Integers, Sequences, FiniteSets, TLC

VARIABLES
    \* masking function exercised on its own
    email, masked, remasked, mpc,
    \* filesystem
    inputFile, outDirExists, csvFile, parquetFile, dbFileExists, dbTable,
    \* one run of the script
    pc, runs, data, flattened_customers, customers_tabular, df_Email_Masked,
    customers_secure, customers_secure_sql, result, verification,
    error, reported, outcome,
    \* history of the current run
    atStart, trace, failedAt,
    \* history of the output directory: no run against it has failed so far
    allOk

maskVars == <<email, masked, remasked, mpc>>
fsVars == <<inputFile, outDirExists, csvFile, parquetFile, dbFileExists, dbTable>>
tableVars == <<data, flattened_customers, customers_tabular, df_Email_Masked,
               customers_secure, customers_secure_sql, result, verification>>
ctlVars == <<pc, runs, error, reported, outcome, atStart, trace, failedAt, allOk>>
vars == <<maskVars, fsVars, tableVars, ctlVars>>

----------------------------------------------------------------------------
\* Bounds

MaxLen == 5          \* longest string handed to mask_email on its own
MaxCustomers == 1    \* most customers of the company in one document
MaxRuns == 2         \* most runs of the script against one output directory

----------------------------------------------------------------------------
\* Strings

None == <<"None">>
Alphabet == {"a", "b", "@"}

SeqsUpTo(S, n) == UNION {[1..k -> S] : k \in 0..n}

Emails == SeqsUpTo(Alphabet, MaxLen) \cup {None}

\* '@' in email
HasAt(s) == \E i \in 1..Len(s) : s[i] = "@"

\* index of the first '@' of s (s contains one)
FirstAt(s) == CHOOSE i \in 1..Len(s) : s[i] = "@" /\ \A j \in 1..(i - 1) : s[j] # "@"

\* email.split('@', 1)
split_once(s) ==
    [local_part |-> SubSeq(s, 1, FirstAt(s) - 1),
     domain |-> SubSeq(s, FirstAt(s) + 1, Len(s))]

\* c * n
Repeat(c, n) == [i \in 1..n |-> c]

MaskWidth == 7

\* variant of mask_email: the whole address is kept after the mask
mask_email_keep_all(e) ==
    IF e = None \/ e = <<>> \/ ~HasAt(e)
    THEN e
    ELSE Repeat("*", MaskWidth) \o <<"@">> \o e

\* variant of mask_email: split at the last '@' (rsplit)
mask_email_rsplit(e) ==
    IF e = None \/ e = <<>> \/ ~HasAt(e)
    THEN e
    ELSE LET last == CHOOSE i \in 1..Len(e) :
                         e[i] = "@" /\ \A j \in (i + 1)..Len(e) : e[j] # "@"
         IN Repeat("*", MaskWidth) \o <<"@">> \o SubSeq(e, last + 1, Len(e))

mask_email(e) ==
    IF e = None \/ e = <<>> \/ ~HasAt(e)
    THEN e
    ELSE LET parts == split_once(e)
             masked_local == Repeat("*", MaskWidth)
         IN masked_local \o <<"@">> \o parts.domain

\* SQL: the parts of s between the '@' separators
RECURSIVE SplitParts(_)
SplitParts(s) ==
    IF ~HasAt(s)
    THEN <<s>>
    ELSE <<SubSeq(s, 1, FirstAt(s) - 1)>> \o SplitParts(SubSeq(s, FirstAt(s) + 1, Len(s)))

\* SQL: SPLIT_PART(s, '@', idx); NULL for NULL, '' past the last part
SPLIT_PART(s, idx) ==
    IF s = None THEN None
    ELSE LET parts == SplitParts(s)
         IN IF idx <= Len(parts) THEN parts[idx] ELSE <<>>

\* SQL: CONCAT(a, b); a NULL argument counts as ''
CONCAT(a, b) == (IF a = None THEN <<>> ELSE a) \o (IF b = None THEN <<>> ELSE b)

MaskPrefix == <<"*", "*", "*", "*", "*", "*", "*", "@">>

\* variant of sql_mask: the host-language function in place of the expression
sql_mask_as_python(Email) == mask_email(Email)

\* SQL: CONCAT('*******@', SPLIT_PART(Email, '@', 2))
sql_mask(Email) == CONCAT(MaskPrefix, SPLIT_PART(Email, 2))

\* SQL: s LIKE '*******@%'
LikeMaskPrefix(s) ==
    /\ s # None
    /\ Len(s) >= Len(MaskPrefix)
    /\ SubSeq(s, 1, Len(MaskPrefix)) = MaskPrefix

----------------------------------------------------------------------------
\* The masking function on its own

MaskInit ==
    /\ email \in Emails
    /\ masked = None
    /\ remasked = None
    /\ mpc = "start"

\* masked = mask_email(email)
MaskOnce ==
    /\ mpc = "start"
    /\ masked' = mask_email(email)
    /\ mpc' = "masked"
    /\ UNCHANGED <<email, remasked, fsVars, tableVars, ctlVars>>

\* remasked = mask_email(masked)
MaskTwice ==
    /\ mpc = "masked"
    /\ remasked' = mask_email(masked)
    /\ mpc' = "remasked"
    /\ UNCHANGED <<email, masked, fsVars, tableVars, ctlVars>>

MaskNext == MaskOnce \/ MaskTwice

----------------------------------------------------------------------------
\* Input documents

\* a customer object of the JSON document ("Place of Birth" is Place_of_Birth)
Customer(name, e) ==
    [Name |-> name, Email |-> e, Phone |-> "555-0100", Birth |-> "1991-04-02",
     Place_of_Birth |-> "Lima", Role |-> "Owner"]

\* customers whose Email is null, has no '@', has one '@', has two
SampleCustomers ==
    { Customer("Ana", None),
      Customer("Bob", <<"a", "b">>),
      Customer("Carlos", <<"a", "@", "b">>),
      Customer("Dee", <<"a", "@", "b", "@", "c">>) }

CompanyIDs == {1}
CompanyNames == {"Acme"}

\* documents of the expected shape: one company object in CompanyInfo
Documents ==
    { [CompanyID |-> id,
       CompanyInfo |-> <<[Name |-> n, Customers |-> cs]>>] :
          id \in CompanyIDs, n \in CompanyNames,
          cs \in SeqsUpTo(SampleCustomers, MaxCustomers) }

----------------------------------------------------------------------------
\* Tables: [cols |-> sequence of column names, rows |-> sequence of records]

NoTable == [cols |-> <<>>, rows |-> <<>>]

RECURSIVE Flatten(_)
Flatten(ss) == IF ss = <<>> THEN <<>> ELSE Head(ss) \o Flatten(Tail(ss))

\* the Python loop over company_info['Customers'] of CompanyInfo[0]
ExtractCustomers(doc) ==
    LET company_id == doc.CompanyID
        company_info == doc.CompanyInfo[1]
        company_name == company_info.Name
        customers == company_info.Customers
    IN [i \in 1..Len(customers) |->
            [CompanyID |-> company_id,
             CompanyName |-> company_name,
             CustomerName |-> customers[i].Name,
             Email |-> customers[i].Email,
             Phone |-> customers[i].Phone,
             DateOfBirth |-> customers[i].Birth,
             PlaceOfBirth |-> customers[i].Place_of_Birth,
             Role |-> customers[i].Role]]

TabularCols ==
    <<"CompanyID", "CompanyName", "Name", "Email", "Phone", "Birth",
      "Place_of_Birth", "Role">>

\* variant of Tabular: the customer's name lands in CompanyName
TabularNameClash(doc) ==
    [cols |-> TabularCols,
     rows |-> Flatten(
        [k \in 1..Len(doc.CompanyInfo) |->
            [i \in 1..Len(doc.CompanyInfo[k].Customers) |->
                LET c == doc.CompanyInfo[k].Customers[i]
                IN [CompanyID |-> doc.CompanyID,
                    CompanyName |-> c.Name,
                    Name |-> c.Name, Email |-> c.Email, Phone |-> c.Phone,
                    Birth |-> c.Birth, Place_of_Birth |-> c.Place_of_Birth,
                    Role |-> c.Role]]])]

\* customers_raw, customers_flattened, customers_tabular: one row per element
\* of CompanyInfo, then one row per element of its Customers
Tabular(doc) ==
    [cols |-> TabularCols,
     rows |-> Flatten(
        [k \in 1..Len(doc.CompanyInfo) |->
            [i \in 1..Len(doc.CompanyInfo[k].Customers) |->
                LET c == doc.CompanyInfo[k].Customers[i]
                IN [CompanyID |-> doc.CompanyID,
                    CompanyName |-> doc.CompanyInfo[k].Name,
                    Name |-> c.Name, Email |-> c.Email, Phone |-> c.Phone,
                    Birth |-> c.Birth, Place_of_Birth |-> c.Place_of_Birth,
                    Role |-> c.Role]]])]

SecureCols ==
    <<"CompanyID", "CompanyName", "CustomerName", "Email_Original",
      "Email_Masked", "Phone", "DateOfBirth", "PlaceOfBirth", "Role">>

\* CREATE TABLE customers_secure: the list parameter is one constant, the
\* same for every row
SecureFromPython(tab, maskedList) ==
    [cols |-> SecureCols,
     rows |-> [i \in 1..Len(tab.rows) |->
        LET r == tab.rows[i]
        IN [CompanyID |-> r.CompanyID, CompanyName |-> r.CompanyName,
            CustomerName |-> r.Name, Email_Original |-> r.Email,
            Email_Masked |-> maskedList,
            Phone |-> r.Phone, DateOfBirth |-> r.Birth,
            PlaceOfBirth |-> r.Place_of_Birth, Role |-> r.Role]]]

\* CREATE OR REPLACE TABLE customers_secure_sql
SecureFromSql(tab) ==
    [cols |-> SecureCols,
     rows |-> [i \in 1..Len(tab.rows) |->
        LET r == tab.rows[i]
        IN [CompanyID |-> r.CompanyID, CompanyName |-> r.CompanyName,
            CustomerName |-> r.Name, Email_Original |-> r.Email,
            Email_Masked |-> sql_mask(r.Email),
            Phone |-> r.Phone, DateOfBirth |-> r.Birth,
            PlaceOfBirth |-> r.Place_of_Birth, Role |-> r.Role]]]

DisplayCols ==
    <<"CompanyID", "CompanyName", "CustomerName", "Email_Masked", "Phone",
      "DateOfBirth", "PlaceOfBirth", "Role">>

\* the Step 4 SELECT: every column but Email_Original
Display(t) ==
    [cols |-> DisplayCols,
     rows |-> [i \in 1..Len(t.rows) |->
        LET r == t.rows[i]
        IN [CompanyID |-> r.CompanyID, CompanyName |-> r.CompanyName,
            CustomerName |-> r.CustomerName, Email_Masked |-> r.Email_Masked,
            Phone |-> r.Phone, DateOfBirth |-> r.DateOfBirth,
            PlaceOfBirth |-> r.PlaceOfBirth, Role |-> r.Role]]]

\* the Step 7 SELECT: the MaskingStatus of every row
Verify(t) ==
    [i \in 1..Len(t.rows) |->
        IF LikeMaskPrefix(t.rows[i].Email_Masked)
        THEN "[OK] Masked Correctly"
        ELSE "[FAIL] Masking Failed"]

----------------------------------------------------------------------------
\* One run of the script: __main__ calls flatten_and_transform_customer_data

StepOrder ==
    <<"mkdir", "open", "extract", "tabular", "mask", "mask_sql", "display",
      "export_csv", "export_parquet", "persist_db", "verify">>

Steps == {StepOrder[i] : i \in 1..Len(StepOrder)}

Snapshot ==
    [csv |-> csvFile, parquet |-> parquetFile,
     dbFile |-> dbFileExists, db |-> dbTable]

Init ==
    /\ email = None /\ masked = None /\ remasked = None /\ mpc = "off"
    /\ inputFile = <<>>
    /\ outDirExists = FALSE
    /\ csvFile = <<>>
    /\ parquetFile = <<>>
    /\ dbFileExists = FALSE
    /\ dbTable = <<>>
    /\ pc = "idle"
    /\ runs = 0
    /\ data = <<>>
    /\ flattened_customers = <<>>
    /\ customers_tabular = NoTable
    /\ df_Email_Masked = <<>>
    /\ customers_secure = NoTable
    /\ customers_secure_sql = NoTable
    /\ result = NoTable
    /\ verification = <<>>
    /\ error = "none"
    /\ reported = "none"
    /\ outcome = "none"
    /\ atStart = Snapshot
    /\ trace = <<>>
    /\ failedAt = "none"
    /\ allOk = TRUE

InputFiles == {<<>>} \cup {<<d>> : d \in Documents}

\* the script is started: a fresh process, a fresh in-memory database; the
\* input file is whatever was put in place, or removed, since the last run
StartRun ==
    /\ pc \in {"idle", "exit"}
    /\ runs < MaxRuns
    /\ inputFile' \in InputFiles
    /\ runs' = runs + 1
    /\ pc' = "mkdir"
    /\ data' = <<>>
    /\ flattened_customers' = <<>>
    /\ customers_tabular' = NoTable
    /\ df_Email_Masked' = <<>>
    /\ customers_secure' = NoTable
    /\ customers_secure_sql' = NoTable
    /\ result' = NoTable
    /\ verification' = <<>>
    /\ error' = "none"
    /\ reported' = "none"
    /\ outcome' = "running"
    /\ atStart' = Snapshot
    /\ trace' = <<>>
    /\ failedAt' = "none"
    /\ UNCHANGED <<maskVars, allOk, outDirExists, csvFile, parquetFile, dbFileExists, dbTable>>

\* bookkeeping shared by the steps: the step is recorded, control moves on
Advance(step, next) ==
    /\ pc = step
    /\ pc' = next
    /\ trace' = Append(trace, step)
    /\ UNCHANGED <<maskVars, runs, atStart, allOk>>

\* a step raises: recorded, control moves to the handler of __main__
Raise(step, exc) ==
    /\ Advance(step, "except")
    /\ error' = exc
    /\ failedAt' = step
    /\ UNCHANGED <<reported, outcome>>

NoRaise == UNCHANGED <<error, failedAt, reported, outcome>>

\* Path(output_dir).mkdir(parents=True, exist_ok=True); duckdb.connect(':memory:')
MakeOutputDir ==
    /\ Advance("mkdir", "open")
    /\ outDirExists' = TRUE
    /\ NoRaise
    /\ UNCHANGED <<inputFile, csvFile, parquetFile, dbFileExists, dbTable, tableVars>>

\* with open(json_file_path, 'r') as f: data = json.load(f)
OpenInput ==
    /\ pc = "open"
    /\ IF inputFile = <<>>
       THEN /\ Raise("open", "FileNotFoundError")
            /\ UNCHANGED data
       ELSE /\ Advance("open", "extract")
            /\ data' = inputFile
            /\ NoRaise
    /\ UNCHANGED <<fsVars, flattened_customers, customers_tabular, df_Email_Masked,
                   customers_secure, customers_secure_sql, result, verification>>

\* the loop that fills flattened_customers
Extract ==
    /\ Advance("extract", "tabular")
    /\ flattened_customers' = ExtractCustomers(data[1])
    /\ NoRaise
    /\ UNCHANGED <<fsVars, data, customers_tabular, df_Email_Masked,
                   customers_secure, customers_secure_sql, result, verification>>

\* read_json_auto(json_file_path) and the two UNNESTs
CreateTabular ==
    /\ Advance("tabular", "mask")
    /\ customers_tabular' = Tabular(inputFile[1])
    /\ NoRaise
    /\ UNCHANGED <<fsVars, data, flattened_customers, df_Email_Masked,
                   customers_secure, customers_secure_sql, result, verification>>

\* df['Email_Masked'] = df['Email'].apply(mask_email); CREATE TABLE customers_secure
ApplyMask ==
    /\ Advance("mask", "mask_sql")
    /\ LET df == customers_tabular.rows
           col == [i \in 1..Len(df) |-> mask_email(df[i].Email)]
       IN /\ df_Email_Masked' = col
          /\ customers_secure' = SecureFromPython(customers_tabular, col)
    /\ NoRaise
    /\ UNCHANGED <<fsVars, data, flattened_customers, customers_tabular,
                   customers_secure_sql, result, verification>>

\* CREATE OR REPLACE TABLE customers_secure_sql
ApplyMaskSql ==
    /\ Advance("mask_sql", "display")
    /\ customers_secure_sql' = SecureFromSql(customers_tabular)
    /\ NoRaise
    /\ UNCHANGED <<fsVars, data, flattened_customers, customers_tabular,
                   df_Email_Masked, customers_secure, result, verification>>

\* Step 4: the table shown on the console
DisplayResult ==
    /\ Advance("display", "export_csv")
    /\ result' = Display(customers_secure_sql)
    /\ NoRaise
    /\ UNCHANGED <<fsVars, data, flattened_customers, customers_tabular,
                   df_Email_Masked, customers_secure, customers_secure_sql,
                   verification>>

\* variant of ExportCsv: an existing file is left as it is
ExportCsvKeep ==
    /\ Advance("export_csv", "export_parquet")
    /\ csvFile' = IF csvFile = <<>> THEN <<customers_secure_sql>> ELSE csvFile
    /\ NoRaise
    /\ UNCHANGED <<inputFile, outDirExists, parquetFile, dbFileExists, dbTable,
                   tableVars>>

\* COPY customers_secure_sql TO customers_secure.csv: written anew
ExportCsv ==
    /\ Advance("export_csv", "export_parquet")
    /\ csvFile' = <<customers_secure_sql>>
    /\ NoRaise
    /\ UNCHANGED <<inputFile, outDirExists, parquetFile, dbFileExists, dbTable,
                   tableVars>>

\* COPY customers_secure_sql TO customers_secure.parquet: written anew
ExportParquet ==
    /\ Advance("export_parquet", "persist_db")
    /\ parquetFile' = <<customers_secure_sql>>
    /\ NoRaise
    /\ UNCHANGED <<inputFile, outDirExists, csvFile, dbFileExists, dbTable,
                   tableVars>>

\* variant of PersistDb: CREATE OR REPLACE TABLE
PersistDbReplace ==
    /\ Advance("persist_db", "verify")
    /\ dbFileExists' = TRUE
    /\ dbTable' = parquetFile
    /\ NoRaise
    /\ UNCHANGED <<inputFile, outDirExists, csvFile, parquetFile, tableVars>>

\* duckdb.connect(db_path); CREATE TABLE IF NOT EXISTS customers_secure AS
\* SELECT * FROM read_parquet(parquet_path); close
PersistDb ==
    /\ Advance("persist_db", "verify")
    /\ dbFileExists' = TRUE
    /\ dbTable' = IF dbTable = <<>> THEN parquetFile ELSE dbTable
    /\ NoRaise
    /\ UNCHANGED <<inputFile, outDirExists, csvFile, parquetFile, tableVars>>

\* Steps 6 and 7, con.close(), the closing messages; the function returns
VerifyAndFinish ==
    /\ Advance("verify", "exit")
    /\ verification' = Verify(customers_secure_sql)
    /\ outcome' = "ok"
    /\ UNCHANGED <<error, failedAt, reported>>
    /\ UNCHANGED <<fsVars, data, flattened_customers, customers_tabular,
                   df_Email_Masked, customers_secure, customers_secure_sql, result>>

\* a step fails for a reason other than a missing input file (unreadable or
\* malformed input, an engine error, a failed write): it raises, its effect
\* is not applied
StepFails ==
    /\ pc \in Steps
    /\ pc = "open" => inputFile # <<>>
    /\ Raise(pc, "Exception")
    /\ UNCHANGED <<fsVars, tableVars>>

\* variant of MainExcept: no clause for FileNotFoundError
MainExceptGeneric ==
    /\ pc = "except"
    /\ pc' = "exit"
    /\ reported' = "Error occurred"
    /\ outcome' = "raised"
    /\ allOk' = FALSE
    /\ UNCHANGED <<maskVars, fsVars, tableVars, runs, error, atStart, trace, failedAt>>

\* variant of MainExcept: the generic clause does not re-raise
MainExceptSwallow ==
    /\ pc = "except"
    /\ pc' = "exit"
    /\ IF error = "FileNotFoundError"
       THEN reported' = "Could not find"
       ELSE reported' = "Error occurred"
    /\ outcome' = "returned"
    /\ allOk' = FALSE
    /\ UNCHANGED <<maskVars, fsVars, tableVars, runs, error, atStart, trace, failedAt>>

\* except FileNotFoundError: print guidance
\* except Exception as e: print the message; raise
MainExcept ==
    /\ pc = "except"
    /\ pc' = "exit"
    /\ IF error = "FileNotFoundError"
       THEN /\ reported' = "Could not find"
            /\ outcome' = "returned"
       ELSE /\ reported' = "Error occurred"
            /\ outcome' = "raised"
    /\ allOk' = FALSE
    /\ UNCHANGED <<maskVars, fsVars, tableVars, runs, error, atStart, trace, failedAt>>

Next ==
    \/ StartRun
    \/ MakeOutputDir
    \/ OpenInput
    \/ Extract
    \/ CreateTabular
    \/ ApplyMask
    \/ ApplyMaskSql
    \/ DisplayResult
    \/ ExportCsv
    \/ ExportParquet
    \/ PersistDb
    \/ VerifyAndFinish
    \/ StepFails
    \/ MainExcept

Spec == Init /\ [][Next]_vars

\* the masking function applied, and applied again, to every bounded string
MaskSpecInit ==
    /\ MaskInit
    /\ inputFile = <<>>
    /\ outDirExists = FALSE
    /\ csvFile = <<>>
    /\ parquetFile = <<>>
    /\ dbFileExists = FALSE
    /\ dbTable = <<>>
    /\ pc = "off"
    /\ runs = 0
    /\ data = <<>>
    /\ flattened_customers = <<>>
    /\ customers_tabular = NoTable
    /\ df_Email_Masked = <<>>
    /\ customers_secure = NoTable
    /\ customers_secure_sql = NoTable
    /\ result = NoTable
    /\ verification = <<>>
    /\ error = "none"
    /\ reported = "none"
    /\ outcome = "none"
    /\ atStart = Snapshot
    /\ trace = <<>>
    /\ failedAt = "none"
    /\ allOk = TRUE

SpecMask == MaskSpecInit /\ [][MaskNext]_vars

----------------------------------------------------------------------------
\* Properties

Count(s, c) == Cardinality({i \in 1..Len(s) : s[i] = c})

\* the customers of the document the current run parsed
InputCustomers == data[1].CompanyInfo[1].Customers

Succeeded == pc = "exit" /\ outcome = "ok"

Published == {csvFile, parquetFile, dbTable}

StepIndex(step) == CHOOSE i \in 1..Len(StepOrder) : StepOrder[i] = step

\* C1: mask_email returns its input unchanged when the input is absent,
\* empty or has no '@'; otherwise the result is seven '*', an '@', and the
\* input after its first '@' verbatim, so its length is 8 + that tail's.
C1_MaskContract ==
    mpc \in {"masked", "remasked"} =>
        IF email = None \/ email = <<>> \/ Count(email, "@") = 0
        THEN masked = email
        ELSE \E p \in 1..Len(email) :
                /\ email[p] = "@"
                /\ \A j \in 1..(p - 1) : email[j] # "@"
                /\ Len(masked) = 8 + (Len(email) - p)
                /\ \A i \in 1..7 : masked[i] = "*"
                /\ masked[8] = "@"
                /\ \A i \in 1..(Len(email) - p) : masked[8 + i] = email[p + i]

C1_Witness ==
    /\ mpc = "masked"
    /\ email = <<"a", "@", "b", "@", "a">>
    /\ masked = <<"*", "*", "*", "*", "*", "*", "*", "@", "b", "@", "a">>

\* C2: in every record of the published outputs of a successful run,
\* Email_Masked equals mask_email of that customer's input Email, for every
\* Email that is a string (with no '@', one '@' or several).
C2_PublishedMaskIsMaskEmail ==
    Succeeded =>
        \A f \in Published :
            /\ f # <<>>
            /\ Len(f[1].rows) = Len(InputCustomers)
            /\ \A i \in 1..Len(InputCustomers) :
                  InputCustomers[i].Email # None =>
                      f[1].rows[i].Email_Masked = mask_email(InputCustomers[i].Email)

\* C3: after a successful run no published artifact has an Email_Original
\* column or holds an unmasked email value.
C3_NoOriginalPublished ==
    Succeeded =>
        \A f \in Published :
            f # <<>> =>
                /\ \A k \in 1..Len(f[1].cols) : f[1].cols[k] # "Email_Original"
                /\ \A i \in 1..Len(f[1].rows) :
                      \A c \in {"Email_Original", "Email_Masked"} \cap DOMAIN f[1].rows[i] :
                          \A j \in 1..Len(InputCustomers) :
                              Count(InputCustomers[j].Email, "@") > 0
                                  => f[1].rows[i][c] # InputCustomers[j].Email

C5_AllArtifactsLatest ==
    (Succeeded /\ allOk) =>
        /\ csvFile = <<customers_secure_sql>>
        /\ parquetFile = <<customers_secure_sql>>
        /\ dbTable = <<customers_secure_sql>>

\* C5 amended: after a successful run the CSV and the Parquet file hold
\* exactly the records of that run's input; the customers_secure table holds
\* them only if it was absent when the run started, and otherwise keeps the
\* rows it had.
C5_FilesLatestTableFirst ==
    Succeeded =>
        /\ Len(customers_secure_sql.rows) = Len(InputCustomers)
        /\ \A i \in 1..Len(InputCustomers) :
              /\ customers_secure_sql.rows[i].CustomerName = InputCustomers[i].Name
              /\ customers_secure_sql.rows[i].Email_Original = InputCustomers[i].Email
        /\ csvFile = <<customers_secure_sql>>
        /\ parquetFile = <<customers_secure_sql>>
        /\ dbTable = IF atStart.db = <<>> THEN <<customers_secure_sql>> ELSE atStart.db

C5_Witness ==
    /\ Succeeded
    /\ allOk
    /\ runs = 2
    /\ atStart.db # <<>>
    /\ dbTable # csvFile
    /\ csvFile = <<customers_secure_sql>>

\* C6: when the input path does not exist the run never gets past opening
\* it, ends with the file-not-found message and returns, and the CSV, the
\* Parquet file and the database file are neither created nor modified.
C6_MissingInput ==
    (runs > 0 /\ inputFile = <<>>) =>
        /\ \A i \in 1..Len(trace) : trace[i] \in {"mkdir", "open"}
        /\ csvFile = atStart.csv
        /\ parquetFile = atStart.parquet
        /\ dbFileExists = atStart.dbFile
        /\ dbTable = atStart.db
        /\ outcome # "ok"
        /\ failedAt = "open" => error = "FileNotFoundError"
        /\ (pc = "exit" /\ failedAt = "open")
              => (reported = "Could not find" /\ outcome = "returned")

C6_Witness ==
    /\ pc = "exit"
    /\ inputFile = <<>>
    /\ failedAt = "open"
    /\ reported = "Could not find"
    /\ atStart.csv # <<>>
    /\ csvFile = atStart.csv

\* C7: a failure other than a missing input file is reported with its
\* message and re-raised to the caller; the steps run are the steps up to the
\* failing one, each once, and no artifact of a later step is written.
C7_FailurePropagates ==
    error = "Exception" =>
        /\ pc \in {"except", "exit"}
        /\ trace = SubSeq(StepOrder, 1, Len(trace))
        /\ trace[Len(trace)] = failedAt
        /\ StepIndex(failedAt) <= StepIndex("export_csv") => csvFile = atStart.csv
        /\ StepIndex(failedAt) <= StepIndex("export_parquet") => parquetFile = atStart.parquet
        /\ StepIndex(failedAt) <= StepIndex("persist_db")
              => (dbTable = atStart.db /\ dbFileExists = atStart.dbFile)
        /\ pc = "exit" => (reported = "Error occurred" /\ outcome = "raised")

C7_Witness ==
    /\ pc = "exit"
    /\ error = "Exception"
    /\ failedAt = "export_parquet"
    /\ outcome = "raised"
    /\ csvFile # atStart.csv
    /\ parquetFile = atStart.parquet

\* C8: the persisting step creates customers_secure from the Parquet file
\* only if the table is absent; a table that exists when a run starts is
\* left with its rows unchanged.
C8_TableCreatedOnlyIfAbsent ==
    LET persisted == failedAt # "persist_db"
                     /\ \E i \in 1..Len(trace) : trace[i] = "persist_db"
    IN /\ atStart.db # <<>> => dbTable = atStart.db
       /\ atStart.db = <<>> =>
             IF persisted
             THEN dbTable = parquetFile /\ dbTable # <<>>
             ELSE dbTable = <<>>

C8_Witness ==
    /\ pc = "verify"
    /\ runs = 2
    /\ atStart.db # <<>>
    /\ dbTable = atStart.db
    /\ parquetFile # dbTable

\* C9: masking is idempotent on every email with at most one '@':
\* mask_email(mask_email(e)) = mask_email(e).
C9_Idempotent ==
    (mpc = "remasked" /\ (email = None \/ Count(email, "@") <= 1))
        => remasked = masked

C9_Witness ==
    /\ mpc = "remasked"
    /\ email = <<"a", "b", "@", "b">>
    /\ masked # email
    /\ remasked = masked

\* C10: every Email_Masked of customers_secure_sql begins with '*******@',
\* with or without an '@' in the input Email, so the Step 7 verification
\* reports '[OK] Masked Correctly' for every row.
C10_MaskPrefixAlways ==
    /\ \A i \in 1..Len(customers_secure_sql.rows) :
          LET m == customers_secure_sql.rows[i].Email_Masked
          IN /\ m # None
             /\ Len(m) >= 8
             /\ \A k \in 1..7 : m[k] = "*"
             /\ m[8] = "@"
    /\ Succeeded =>
          /\ Len(verification) = Len(InputCustomers)
          /\ \A i \in 1..Len(verification) : verification[i] = "[OK] Masked Correctly"

C10_Witness ==
    /\ Succeeded
    /\ Len(verification) >= 1
    /\ verification[1] = "[OK] Masked Correctly"
    /\ customers_secure_sql.rows[1].Email_Original \in {None, <<"a", "b">>}

====
